---- MODULE Spec2Model ----
(***************************************************************************)
(* A model of python-json-patch 0.1 (src/jsonpatch.py): the path resolver, *)
(* the five patch operations, JsonPatch.apply and make_patch.               *)
(*                                                                         *)
(* Python objects live in a heap: a dict or a list is a heap node reached   *)
(* through a reference, so that an operation's "value" inserted into a      *)
(* document is the same object as the one the patch holds (jsonpatch.py     *)
(* never copies).  Scalars are integers and are held by value.  A Python    *)
(* str is a sequence of one-character strings, so that split, join, int()   *)
(* and str() are computed and not assumed.                                  *)
(***************************************************************************)
EXTENDS Integers, Sequences, FiniteSets, TLC

VARIABLES
    heap,      \* address -> dict or list object
    doc,       \* the caller's reference to the document: obj of apply
    patch,     \* JsonPatch.patch
    pc,        \* index in patch of the operation the loop of apply is at
    status,    \* "running", "returned", or the exception apply raised
    ret,       \* what apply returned
    heapNew,   \* the heap when the JsonPatch was constructed
    heapCall,  \* the heap when apply was called
    heapPre,   \* the heap before the last operation applied
    run,       \* 1 in the first apply of the patch, 2 in the second
    heapEnd1,  \* the heap at the end of the first apply
    status1    \* how the first apply ended

vars ==
    <<heap, doc, patch, pc, status, ret, heapNew, heapCall, heapPre, run, heapEnd1, status1>>

(***************************************************************************)
(* Bounds of the model.                                                    *)
(***************************************************************************)
MaxLen == 2
MaxOps == 2

(***************************************************************************)
(* Python str: split('/'), '/'.join, int(), str().                          *)
(***************************************************************************)
RECURSIVE Split(_)
Split(s) ==
    IF s = <<>> THEN << <<>> >>
    ELSE LET rest == Split(Tail(s)) IN
         IF Head(s) = "/" THEN << <<>> >> \o rest
         ELSE << <<Head(s)>> \o Head(rest) >> \o Tail(rest)

RECURSIVE Join(_)
Join(parts) ==
    IF parts = <<>> THEN <<>>
    ELSE IF Len(parts) = 1 THEN parts[1]
    ELSE parts[1] \o <<"/">> \o Join(Tail(parts))

Digits == <<"0", "1", "2", "3", "4", "5", "6", "7", "8", "9">>

IsDigit(c) == \E i \in 1..Len(Digits) : Digits[i] = c

DigitVal(c) == (CHOOSE i \in 1..Len(Digits) : Digits[i] = c) - 1

RECURSIVE DigitsVal(_)
DigitsVal(s) ==
    IF s = <<>> THEN 0
    ELSE 10 * DigitsVal(SubSeq(s, 1, Len(s) - 1)) + DigitVal(s[Len(s)])

Unsigned(s) == IF s # <<>> /\ Head(s) \in {"-", "+"} THEN Tail(s) ELSE s

\* int(s) raises ValueError unless s is an optional sign and decimal digits
IsIntLiteral(s) ==
    /\ Unsigned(s) # <<>>
    /\ \A i \in 1..Len(Unsigned(s)) : IsDigit(Unsigned(s)[i])

ParseInt(s) ==
    IF s # <<>> /\ Head(s) = "-" THEN 0 - DigitsVal(Unsigned(s))
    ELSE DigitsVal(Unsigned(s))

RECURSIVE IntToStr(_)
IntToStr(n) ==
    IF n < 10 THEN <<Digits[n + 1]>>
    ELSE IntToStr(n \div 10) \o <<Digits[(n % 10) + 1]>>

(***************************************************************************)
(* Values and the heap.                                                    *)
(***************************************************************************)
IntCell(n) == [t |-> "int", v |-> n]
RefCell(a) == [t |-> "ref", v |-> a]
NoCell == [t |-> "none", v |-> 0]

DictNode(f) == [kind |-> "dict", d |-> f, l |-> <<>>]
ListNode(s) == [kind |-> "list", d |-> <<>>, l |-> s]
Unused == ListNode(<<>>)

IsDict(h, c) == c.t = "ref" /\ h[c.v].kind = "dict"
IsList(h, c) == c.t = "ref" /\ h[c.v].kind = "list"

\* a path step's result key: a dict key (a str) or a list index (an int)
KeyPart(k) == [isKey |-> TRUE, key |-> k, idx |-> 0]
IdxPart(i) == [isKey |-> FALSE, key |-> <<>>, idx |-> i]

\* Python list indexing l[i], i in -len..len-1
PyIndex(l, i) == IF i >= 0 THEN i + 1 ELSE Len(l) + i + 1

\* Python ==  on two values, each read in its own heap
RECURSIVE DeepEq(_, _, _, _)
DeepEq(h1, c1, h2, c2) ==
    IF c1.t # "ref" \/ c2.t # "ref" THEN c1.t # "ref" /\ c2.t # "ref" /\ c1 = c2
    ELSE LET n1 == h1[c1.v]
             n2 == h2[c2.v] IN
         /\ n1.kind = n2.kind
         /\ DOMAIN n1.d = DOMAIN n2.d
         /\ Len(n1.l) = Len(n2.l)
         /\ \A k \in DOMAIN n1.d : DeepEq(h1, n1.d[k], h2, n2.d[k])
         /\ \A i \in 1..Len(n1.l) : DeepEq(h1, n1.l[i], h2, n2.l[i])

(***************************************************************************)
(* PatchOperation._step and PatchOperation.locate.                          *)
(***************************************************************************)
StepOk(val, part) == [err |-> "ok", val |-> val, part |-> part]
StepErr(e) == [err |-> e, val |-> NoCell, part |-> IdxPart(0)]

step(h, obj, loc_part, must_exist) ==
    LET missing == \* the code after the if/elif/else: nothing was returned
            IF must_exist THEN StepErr("JsonPatchConflict")
            ELSE StepOk(obj, IF IsDict(h, obj) THEN KeyPart(loc_part)
                             ELSE IdxPart(ParseInt(loc_part)))
    IN
    IF IsDict(h, obj) THEN
        IF loc_part \in DOMAIN h[obj.v].d
        THEN StepOk(h[obj.v].d[loc_part], KeyPart(loc_part))
        ELSE missing
    ELSE IF IsList(h, obj) THEN
        IF ~IsIntLiteral(loc_part) THEN StepErr("ValueError")
        ELSE LET variant == ParseInt(loc_part)
                 l == h[obj.v].l IN
             IF variant >= Len(l) THEN missing
             ELSE IF variant < 0 - Len(l) THEN StepErr("IndexError")
             ELSE StepOk(l[PyIndex(l, variant)], IdxPart(variant))
    ELSE StepErr("ValueError")

LocOk(sub, part) == [err |-> "ok", sub |-> sub, part |-> part]
LocErr(e) == [err |-> e, sub |-> NoCell, part |-> IdxPart(0)]

\* for part in parts[:-1]: obj, _ = self._step(obj, part)
RECURSIVE walk(_, _, _)
walk(h, obj, parts) ==
    IF parts = <<>> THEN StepOk(obj, IdxPart(0))
    ELSE LET s == step(h, obj, Head(parts), TRUE) IN
         IF s.err # "ok" THEN s ELSE walk(h, s.val, Tail(parts))

locate(h, obj, location, last_must_exist) ==
    LET split == Split(location)
        parts == Tail(split) IN
    IF Head(split) # <<>> THEN LocErr("JsonPatchException")
    ELSE IF parts = <<>> THEN LocErr("IndexError")   \* parts[-1] of []
    ELSE LET w == walk(h, obj, SubSeq(parts, 1, Len(parts) - 1)) IN
         IF w.err # "ok" THEN LocErr(w.err)
         ELSE LET last == step(h, w.val, parts[Len(parts)], last_must_exist) IN
              IF last.err # "ok" THEN LocErr(last.err)
              ELSE LocOk(w.val, last.part)

(***************************************************************************)
(* The container primitives the operations use.                            *)
(***************************************************************************)
\* subobj[part]
GetItem(h, sub, part) ==
    IF part.isKey THEN h[sub.v].d[part.key]
    ELSE h[sub.v].l[PyIndex(h[sub.v].l, part.idx)]

RemoveAt(s, i) == SubSeq(s, 1, i - 1) \o SubSeq(s, i + 1, Len(s))

InsertAt(s, i, x) == SubSeq(s, 1, i - 1) \o <<x>> \o SubSeq(s, i, Len(s))

\* del subobj[part] taking a Sequence's last element whatever the index (a pop)
DelItemLast(h, sub, part) ==
    LET n == h[sub.v] IN
    IF part.isKey
    THEN [h EXCEPT ![sub.v] = DictNode([k \in DOMAIN n.d \ {part.key} |-> n.d[k]])]
    ELSE [h EXCEPT ![sub.v] = ListNode(SubSeq(n.l, 1, Len(n.l) - 1))]

\* del subobj[part]
DelItem(h, sub, part) ==
    LET n == h[sub.v] IN
    IF part.isKey
    THEN [h EXCEPT ![sub.v] = DictNode([k \in DOMAIN n.d \ {part.key} |-> n.d[k]])]
    ELSE [h EXCEPT ![sub.v] = ListNode(RemoveAt(n.l, PyIndex(n.l, part.idx)))]

\* subobj[part] = value
SetItem(h, sub, part, value) ==
    LET n == h[sub.v] IN
    IF part.isKey
    THEN [h EXCEPT ![sub.v] = DictNode([k \in DOMAIN n.d \cup {part.key} |->
                                          IF k = part.key THEN value ELSE n.d[k]])]
    ELSE [h EXCEPT ![sub.v] = ListNode([n.l EXCEPT ![PyIndex(n.l, part.idx)] = value])]

\* subobj.insert(part, value), 0 <= part <= len(subobj)
ListInsert(h, sub, idx, value) ==
    [h EXCEPT ![sub.v] = ListNode(InsertAt(h[sub.v].l, idx + 1, value))]

(***************************************************************************)
(* The five operations.  Each returns the error raised ("ok" when none)    *)
(* and the heap it leaves.                                                 *)
(***************************************************************************)
Res(e, h) == [err |-> e, heap |-> h]

RemoveOperation(h, obj, operation) ==
    LET loc == locate(h, obj, operation.path, TRUE) IN
    IF loc.err # "ok" THEN Res(loc.err, h)
    ELSE Res("ok", DelItem(h, loc.sub, loc.part))

\* AddOperation with the slip "part >= len(subobj)": an append is refused
AddOperationNoAppend(h, obj, location, value) ==
    LET loc == locate(h, obj, location, FALSE) IN
    IF loc.err # "ok" THEN Res(loc.err, h)
    ELSE IF IsList(h, loc.sub) THEN
        IF loc.part.idx >= Len(h[loc.sub.v].l) \/ loc.part.idx < 0
        THEN Res("JsonPatchConflict", h)
        ELSE Res("ok", ListInsert(h, loc.sub, loc.part.idx, value))
    ELSE IF IsDict(h, loc.sub) THEN
        IF loc.part.key \in DOMAIN h[loc.sub.v].d
        THEN Res("JsonPatchConflict", h)
        ELSE Res("ok", SetItem(h, loc.sub, loc.part, value))
    ELSE Res("JsonPatchConflict", h)

\* AddOperation without the "already exists" check: a present key is overwritten
AddOperationOverwrite(h, obj, location, value) ==
    LET loc == locate(h, obj, location, FALSE) IN
    IF loc.err # "ok" THEN Res(loc.err, h)
    ELSE IF IsList(h, loc.sub) THEN
        IF loc.part.idx > Len(h[loc.sub.v].l) \/ loc.part.idx < 0
        THEN Res("JsonPatchConflict", h)
        ELSE Res("ok", ListInsert(h, loc.sub, loc.part.idx, value))
    ELSE IF IsDict(h, loc.sub) THEN Res("ok", SetItem(h, loc.sub, loc.part, value))
    ELSE Res("JsonPatchConflict", h)

AddOperation(h, obj, location, value) ==
    LET loc == locate(h, obj, location, FALSE) IN
    IF loc.err # "ok" THEN Res(loc.err, h)
    ELSE IF IsList(h, loc.sub) THEN
        IF loc.part.idx > Len(h[loc.sub.v].l) \/ loc.part.idx < 0
        THEN Res("JsonPatchConflict", h)
        ELSE Res("ok", ListInsert(h, loc.sub, loc.part.idx, value))
    ELSE IF IsDict(h, loc.sub) THEN
        IF loc.part.key \in DOMAIN h[loc.sub.v].d
        THEN Res("JsonPatchConflict", h)
        ELSE Res("ok", SetItem(h, loc.sub, loc.part, value))
    ELSE Res("JsonPatchConflict", h)

ReplaceOperation(h, obj, operation) ==
    LET loc == locate(h, obj, operation.path, TRUE) IN
    IF loc.err # "ok" THEN Res(loc.err, h)
    ELSE IF IsList(h, loc.sub) THEN
        IF loc.part.idx > Len(h[loc.sub.v].l) \/ loc.part.idx < 0
        THEN Res("JsonPatchConflict", h)
        ELSE Res("ok", SetItem(h, loc.sub, loc.part, operation.value))
    ELSE IF IsDict(h, loc.sub) THEN
        IF loc.part.key \notin DOMAIN h[loc.sub.v].d
        THEN Res("JsonPatchConflict", h)
        ELSE Res("ok", SetItem(h, loc.sub, loc.part, operation.value))
    ELSE Res("JsonPatchConflict", h)

\* MoveOperation with the two calls exchanged: the Add before the Remove
MoveOperationAddFirst(h, obj, operation) ==
    LET loc == locate(h, obj, operation.path, TRUE) IN
    IF loc.err # "ok" THEN Res(loc.err, h)
    ELSE LET value == GetItem(h, loc.sub, loc.part)
             added == AddOperation(h, obj, operation.to, value) IN
         IF added.err # "ok" THEN added
         ELSE RemoveOperation(added.heap, obj, operation)

\* MoveOperation without the Remove: the value is copied to the destination
MoveOperationNoRemove(h, obj, operation) ==
    LET loc == locate(h, obj, operation.path, TRUE) IN
    IF loc.err # "ok" THEN Res(loc.err, h)
    ELSE AddOperation(h, obj, operation.to, GetItem(h, loc.sub, loc.part))

MoveOperation(h, obj, operation) ==
    LET loc == locate(h, obj, operation.path, TRUE) IN
    IF loc.err # "ok" THEN Res(loc.err, h)
    ELSE LET value == GetItem(h, loc.sub, loc.part)
             removed == RemoveOperation(h, obj, operation) IN
         IF removed.err # "ok" THEN removed
         ELSE AddOperation(removed.heap, obj, operation.to, value)

\* TestOperation with the assert statement gone: the comparison decides nothing
TestOperationNoAssert(h, obj, operation) ==
    LET loc == locate(h, obj, operation.path, TRUE) IN
    IF loc.err # "ok" THEN Res(loc.err, h) ELSE Res("ok", h)

TestOperation(h, obj, operation) ==
    LET loc == locate(h, obj, operation.path, TRUE) IN
    IF loc.err # "ok" THEN Res(loc.err, h)
    ELSE IF DeepEq(h, GetItem(h, loc.sub, loc.part), h, operation.value)
         THEN Res("ok", h)
         ELSE Res("AssertionError", h)

(***************************************************************************)
(* JsonPatch: the operation list and its dispatch.  An operation is the    *)
(* dict {action: path, 'value': value, 'to': to}; action is its one key     *)
(* other than 'value' and 'to'.                                            *)
(***************************************************************************)
Op(action, path, value, to) ==
    [action |-> action, path |-> path, value |-> value, to |-> to]

operations == {"remove", "add", "replace", "move", "test"}

\* the class _get_operation finds, "invalid" when it raises JsonPatchException
\* _get_operation without the final raise: the last class tried is taken
get_operation_lenient(operation) ==
    IF operation.action \in operations THEN operation.action ELSE "remove"

get_operation(operation) ==
    IF operation.action \in operations THEN operation.action ELSE "invalid"

\* operation.apply(obj) of the class found
apply_operation(h, obj, operation) ==
    CASE get_operation(operation) = "remove" -> RemoveOperation(h, obj, operation)
      [] get_operation(operation) = "add" ->
             AddOperation(h, obj, operation.path, operation.value)
      [] get_operation(operation) = "replace" -> ReplaceOperation(h, obj, operation)
      [] get_operation(operation) = "move" -> MoveOperation(h, obj, operation)
      [] get_operation(operation) = "test" -> TestOperation(h, obj, operation)
      [] OTHER -> Res("JsonPatchException", h)

\* the loop of JsonPatch.apply with an exception swallowed: it goes on to the
\* next operation
RECURSIVE apply_from_swallowing(_, _, _, _)
apply_from_swallowing(h, obj, ops, i) ==
    IF i > Len(ops) THEN [err |-> "ok", heap |-> h, at |-> i]
    ELSE apply_from_swallowing(apply_operation(h, obj, ops[i]).heap, obj, ops, i + 1)

\* JsonPatch.apply as a function: the loop over self.patch from operation i on
RECURSIVE apply_from(_, _, _, _)
apply_from(h, obj, ops, i) ==
    IF i > Len(ops) THEN [err |-> "ok", heap |-> h, at |-> i]
    ELSE LET r == apply_operation(h, obj, ops[i]) IN
         IF r.err # "ok" THEN [err |-> r.err, heap |-> r.heap, at |-> i]
         ELSE apply_from(r.heap, obj, ops, i + 1)

JsonPatch_apply(h, obj, ops) == apply_from(h, obj, ops, 1)

(***************************************************************************)
(* The documents and patches a run starts from.                            *)
(***************************************************************************)
SA == <<"a">>
SB == <<"b">>
S0 == <<"0">>
S1 == <<"1">>
S2 == <<"2">>
SNeg == <<"-", "1">>

Segments == {SA, SB, S0, S1, S2, SNeg}

\* where the objects of a run live
Addr == [root |-> 1, inner |-> 2, value |-> 3, rootCopy |-> 4, innerCopy |-> 5]

IntList(k) == [i \in 1..k |-> IntCell(i)]

DictOf(ca, cb) ==
    DictNode([k \in (IF ca = NoCell THEN {} ELSE {SA}) \cup
                    (IF cb = NoCell THEN {} ELSE {SB}) |->
                 IF k = SA THEN ca ELSE cb])

\* the container a document may hold one level down
InnerNodes ==
    {ListNode(IntList(k)) : k \in 0..MaxLen}
        \cup {DictNode(<<>>), DictNode(SA :> IntCell(1))}

\* root nodes, the inner container (if any) referenced once
RootNodes ==
    {DictOf(ca, cb) : ca \in {NoCell, IntCell(1), RefCell(Addr.inner)},
                      cb \in {NoCell, IntCell(2)}}
        \cup {ListNode(IntList(k)) : k \in 0..MaxLen}
        \cup {ListNode(<<RefCell(Addr.inner)>> \o IntList(k)) : k \in 0..(MaxLen - 1)}

HasInner(n) ==
    \/ \E k \in DOMAIN n.d : n.d[k] = RefCell(Addr.inner)
    \/ \E i \in 1..Len(n.l) : n.l[i] = RefCell(Addr.inner)

\* a node with every reference moved by off: the node of a deep copy
Shift(n, off) ==
    LET sh(c) == IF c.t = "ref" THEN RefCell(c.v + off) ELSE c IN
    [kind |-> n.kind,
     d |-> [k \in DOMAIN n.d |-> sh(n.d[k])],
     l |-> [i \in 1..Len(n.l) |-> sh(n.l[i])]]

\* the container an operation's value may be
ValueNode == ListNode(IntList(1))

\* the heap of a run: the document, the patch's value, and the caller's
\* deep copy of the document, taken before the first apply
DocHeaps ==
    {[a \in 1..5 |->
        CASE a = Addr.root -> r
          [] a = Addr.inner -> n
          [] a = Addr.value -> ValueNode
          [] a = Addr.rootCopy -> Shift(r, 3)
          [] a = Addr.innerCopy -> n] :
      r \in {m \in RootNodes : HasInner(m)}, n \in InnerNodes} \cup
    {[a \in 1..5 |->
        CASE a = Addr.root -> r
          [] a = Addr.value -> ValueNode
          [] a = Addr.rootCopy -> r
          [] OTHER -> Unused] :
      r \in {m \in RootNodes : ~HasInner(m)}}

Path(segs) == Join(<< <<>> >> \o segs)

Paths ==
    {Path(<<s>>) : s \in Segments}
        \cup {Path(<<s, t>>) : s \in {SA, S0}, t \in Segments}
        \cup {Path(<<SA, S0, S0>>), SA, <<>>}

MovePaths ==
    {Path(<<s>>) : s \in {SA, SB, S0, S1}}
        \cup {Path(<<SA, S0>>), Path(<<SA, SB>>), Path(<<S0, S0>>), Path(<<SB, SA>>)}

Values == {IntCell(1), IntCell(3), RefCell(Addr.value)}

SingleOps ==
    {Op("remove", p, NoCell, <<>>) : p \in Paths}
        \cup {Op(a, p, v, <<>>) : a \in {"add", "replace", "test"}, p \in Paths, v \in Values}
        \cup {Op("move", p, NoCell, q) : p \in MovePaths, q \in MovePaths}
        \cup {Op("copy", Path(<<SA>>), NoCell, <<>>)}

\* the operations of the longer patches
SeqOps ==
    {Op("add", Path(<<SA>>), RefCell(Addr.value), <<>>),
     Op("add", Path(<<SB>>), IntCell(3), <<>>),
     Op("add", Path(<<S0>>), IntCell(3), <<>>),
     Op("remove", Path(<<SA, S0>>), NoCell, <<>>),
     Op("remove", Path(<<SA>>), NoCell, <<>>),
     Op("replace", Path(<<S0>>), IntCell(3), <<>>),
     Op("move", Path(<<SA>>), NoCell, Path(<<SB>>)),
     Op("move", Path(<<S0>>), NoCell, Path(<<S2>>)),
     Op("test", Path(<<SA>>), IntCell(1), <<>>),
     Op("copy", Path(<<SA>>), NoCell, <<>>)}

RECURSIVE SeqsOf(_, _)
SeqsOf(S, n) ==
    IF n = 0 THEN {<<>>}
    ELSE {<<x>> \o s : x \in S, s \in SeqsOf(S, n - 1)}

\* an Add followed by the Remove of the same path
AddRemovePatches ==
    {<<Op("add", p, v, <<>>), Op("remove", p, NoCell, <<>>)>> : p \in Paths, v \in Values}

Patches ==
    {<<>>} \cup {<<o>> : o \in SingleOps}
        \cup AddRemovePatches
        \cup UNION {SeqsOf(SeqOps, n) : n \in 2..MaxOps}

(***************************************************************************)
(* The run: the caller builds JsonPatch(patch) and calls apply(doc).  One  *)
(* step is one turn of the loop of JsonPatch.apply.                        *)
(***************************************************************************)
Init ==
    /\ heap \in DocHeaps
    /\ doc = RefCell(Addr.root)
    /\ patch \in Patches
    /\ pc = 1
    /\ status = "running"
    /\ ret = NoCell
    /\ heapNew = heap
    /\ heapCall = heap
    /\ heapPre = heap
    /\ run = 1
    /\ heapEnd1 = heap
    /\ status1 = "running"

Running == status = "running" /\ pc <= Len(patch)

\* operation.apply(obj) has returned or raised
Applied(r) ==
    /\ heapPre' = heap
    /\ heap' = r.heap
    /\ pc' = IF r.err = "ok" THEN pc + 1 ELSE pc
    /\ status' = IF r.err = "ok" THEN "running" ELSE r.err
    /\ UNCHANGED <<doc, patch, ret, heapNew, heapCall, run, heapEnd1, status1>>

ApplyRemove ==
    /\ Running
    /\ get_operation(patch[pc]) = "remove"
    /\ Applied(RemoveOperation(heap, doc, patch[pc]))

ApplyAdd ==
    /\ Running
    /\ get_operation(patch[pc]) = "add"
    /\ Applied(AddOperation(heap, doc, patch[pc].path, patch[pc].value))

ApplyReplace ==
    /\ Running
    /\ get_operation(patch[pc]) = "replace"
    /\ Applied(ReplaceOperation(heap, doc, patch[pc]))

ApplyMove ==
    /\ Running
    /\ get_operation(patch[pc]) = "move"
    /\ Applied(MoveOperation(heap, doc, patch[pc]))

ApplyTest ==
    /\ Running
    /\ get_operation(patch[pc]) = "test"
    /\ Applied(TestOperation(heap, doc, patch[pc]))

\* _get_operation raises JsonPatchException
ApplyInvalid ==
    /\ Running
    /\ get_operation(patch[pc]) = "invalid"
    /\ Applied(Res("JsonPatchException", heap))

\* JsonPatch.apply returning a copy of the document instead of obj
ReturnCopy(obj) == RefCell(obj.v + 3)

\* the value JsonPatch.apply returns
ReturnValue(obj) == obj

Return ==
    /\ status = "running"
    /\ pc > Len(patch)
    /\ status' = "returned"
    /\ ret' = ReturnValue(doc)
    /\ UNCHANGED <<heap, doc, patch, pc, heapNew, heapCall, heapPre, run, heapEnd1, status1>>

Next ==
    \/ ApplyRemove
    \/ ApplyAdd
    \/ ApplyReplace
    \/ ApplyMove
    \/ ApplyTest
    \/ ApplyInvalid
    \/ Return

Spec == Init /\ [][Next]_vars

(***************************************************************************)
(* The caller applies the same JsonPatch object a second time, to the deep *)
(* copy of the document it took before the first apply.                    *)
(***************************************************************************)
Ended == status \notin {"running", "diffing"}

ApplyAgain ==
    /\ Ended
    /\ run = 1
    /\ run' = 2
    /\ heapEnd1' = heap
    /\ status1' = status
    /\ doc' = RefCell(Addr.rootCopy)
    /\ pc' = 1
    /\ status' = "running"
    /\ ret' = NoCell
    /\ heapCall' = heap
    /\ heapPre' = heap
    /\ UNCHANGED <<heap, patch, heapNew>>

NextTwice == Next \/ ApplyAgain

SpecTwice == Init /\ [][NextTwice]_vars

(***************************************************************************)
(* make_patch.  The generators compare_values, compare_dict, compare_list  *)
(* are the sequences they yield.  path is the list of path parts, [''] at  *)
(* the root.  A dict is iterated in the order its keys have in ord.        *)
(***************************************************************************)
RECURSIVE compare_values(_, _, _, _, _)
RECURSIVE compare_dict(_, _, _, _, _)
RECURSIVE compare_list(_, _, _, _, _)
RECURSIVE src_keys(_, _, _, _, _, _)
RECURSIVE list_from(_, _, _, _, _, _)

KeysOf(h, c, ord) == SelectSeq(ord, LAMBDA k : k \in DOMAIN h[c.v].d)

compare_values(h, path, value, other, ord) ==
    IF IsDict(h, value) /\ IsDict(h, other)
    THEN compare_dict(h, path, value, other, ord)
    ELSE IF IsList(h, value) /\ IsList(h, other)
    THEN compare_list(h, path, value, other, ord)
    ELSE <<Op("replace", Join(path), other, <<>>)>>

\* the loop over src without the test src[key] != dst[key]
RECURSIVE src_keys_unchecked(_, _, _, _, _, _)
src_keys_unchecked(h, path, src, dst, ord, keys) ==
    IF keys = <<>> THEN <<>>
    ELSE LET key == Head(keys)
             here ==
                 IF key \notin DOMAIN h[dst.v].d
                 THEN <<Op("remove", Join(path \o <<key>>), NoCell, <<>>)>>
                 ELSE compare_values(h, path \o <<key>>,
                                     h[src.v].d[key], h[dst.v].d[key], ord)
         IN here \o src_keys_unchecked(h, path, src, dst, ord, Tail(keys))

\* for key in src: ...   over the keys still to visit
src_keys(h, path, src, dst, ord, keys) ==
    IF keys = <<>> THEN <<>>
    ELSE LET key == Head(keys)
             here ==
                 IF key \notin DOMAIN h[dst.v].d
                 THEN <<Op("remove", Join(path \o <<key>>), NoCell, <<>>)>>
                 ELSE IF ~DeepEq(h, h[src.v].d[key], h, h[dst.v].d[key])
                 THEN compare_values(h, path \o <<key>>,
                                     h[src.v].d[key], h[dst.v].d[key], ord)
                 ELSE <<>>
         IN here \o src_keys(h, path, src, dst, ord, Tail(keys))

\* for key in dst: if key not in src: yield add
dst_keys(h, path, src, dst, ord) ==
    LET new == SelectSeq(KeysOf(h, dst, ord), LAMBDA k : k \notin DOMAIN h[src.v].d) IN
    [i \in 1..Len(new) |->
        Op("add", Join(path \o <<new[i]>>), h[dst.v].d[new[i]], <<>>)]

compare_dict(h, path, src, dst, ord) ==
    src_keys(h, path, src, dst, ord, KeysOf(h, src, ord))
        \o dst_keys(h, path, src, dst, ord)

Max(a, b) == IF a >= b THEN a ELSE b

\* for idx in reversed(range(...)): ...   from idx down to 0
list_from(h, path, src, dst, ord, idx) ==
    IF idx < 0 THEN <<>>
    ELSE LET lsrc == Len(h[src.v].l)
             ldst == Len(h[dst.v].l)
             here ==
                 IF idx < lsrc /\ idx < ldst
                 THEN compare_values(h, path \o <<IntToStr(idx)>>,
                                     h[src.v].l[idx + 1], h[dst.v].l[idx + 1], ord)
                 ELSE IF idx < ldst
                 THEN <<Op("add", Join(path \o <<IntToStr(idx)>>),
                           h[dst.v].l[idx + 1], <<>>)>>
                 ELSE IF idx < lsrc
                 THEN <<Op("remove", Join(path \o <<IntToStr(idx)>>), NoCell, <<>>)>>
                 ELSE <<>>
         IN here \o list_from(h, path, src, dst, ord, idx - 1)

\* compare_list without reversed(): the operations come out in the opposite order
compare_list_ascending(h, path, src, dst, ord) ==
    LET out == list_from(h, path, src, dst, ord,
                         Max(Len(h[src.v].l), Len(h[dst.v].l)) - 1) IN
    [i \in 1..Len(out) |-> out[Len(out) + 1 - i]]

compare_list(h, path, src, dst, ord) ==
    list_from(h, path, src, dst, ord, Max(Len(h[src.v].l), Len(h[dst.v].l)) - 1)

make_patch(h, src, dst, ord) == compare_dict(h, << <<>> >>, src, dst, ord)

(***************************************************************************)
(* The run of make_patch: the caller holds src and dst, takes a deep copy  *)
(* of src, calls make_patch(src, dst) and applies the patch to the copy.   *)
(***************************************************************************)
DiffAddr == [src |-> 1, dst |-> 4, copy |-> 7]

IntLists == UNION {[1..k -> {IntCell(1), IntCell(2)}] : k \in 0..MaxLen}

\* a tree as its nodes <<root, child, grandchild>>, at addresses 1, 2, 3
DiffTrees ==
    {<<DictOf(ca, cb), Unused, Unused>> :
        ca \in {NoCell, IntCell(1), IntCell(2)}, cb \in {NoCell, IntCell(1)}}
    \cup
    {<<DictOf(RefCell(2), cb), c, Unused>> :
        cb \in {NoCell, IntCell(1)},
        c \in {ListNode(l) : l \in IntLists}
                \cup {DictNode(<<>>), DictNode(SA :> IntCell(1)),
                      DictNode(SA :> IntCell(2)), DictNode(SB :> IntCell(1))}}
    \cup
    {<<DictOf(RefCell(2), cb), ListNode(<<RefCell(3)>> \o IntList(k)), ListNode(IntList(j))>> :
        cb \in {NoCell, IntCell(1)}, k \in 0..(MaxLen - 1), j \in 0..MaxLen}

DiffHeaps ==
    {[a \in 1..9 |->
        IF a <= 3 THEN Shift(s[a], 0)
        ELSE IF a <= 6 THEN Shift(d[a - 3], 3)
        ELSE Shift(s[a - 6], 6)] : s \in DiffTrees, d \in DiffTrees}

KeyOrders == {<<SA, SB>>, <<SB, SA>>}

InitDiff ==
    /\ heap \in DiffHeaps
    /\ doc = RefCell(DiffAddr.copy)
    /\ patch = <<>>
    /\ pc = 1
    /\ status = "diffing"
    /\ ret = NoCell
    /\ heapNew = heap
    /\ heapCall = heap
    /\ heapPre = heap
    /\ run = 1
    /\ heapEnd1 = heap
    /\ status1 = "running"

MakePatch ==
    /\ status = "diffing"
    /\ \E ord \in KeyOrders :
          patch' = make_patch(heap, RefCell(DiffAddr.src), RefCell(DiffAddr.dst), ord)
    /\ status' = "running"
    /\ UNCHANGED <<heap, doc, pc, ret, heapNew, heapCall, heapPre, run, heapEnd1, status1>>

NextDiff ==
    \/ MakePatch
    \/ ApplyRemove
    \/ ApplyAdd
    \/ ApplyReplace
    \/ Return

SpecDiff == InitDiff /\ [][NextDiff]_vars

(***************************************************************************)
(* What the properties speak of.  A path is read here as the specification *)
(* reads it: an Object key must be present, a Sequence index is a          *)
(* non-negative decimal number below the length.                           *)
(***************************************************************************)
Failed == status \notin {"running", "returned", "diffing"}

\* an operation has been applied (or has failed) in this call of apply
Stepped == Failed \/ (status \in {"running", "returned"} /\ pc > 1)

LastOp == IF Failed THEN patch[pc] ELSE patch[pc - 1]

WellFormed(p) == p # <<>> /\ Head(p) = "/"

SegsOf(p) == Tail(Split(p))

Front(s) == SubSeq(s, 1, Len(s) - 1)

LastSeg(p) == SegsOf(p)[Len(SegsOf(p))]

IsIndexStr(s) == s # <<>> /\ \A i \in 1..Len(s) : IsDigit(s[i])

\* the child of container c that segment seg names, NoCell when it names none
ChildAt(h, c, seg) ==
    IF IsDict(h, c) /\ seg \in DOMAIN h[c.v].d THEN h[c.v].d[seg]
    ELSE IF IsList(h, c) /\ IsIndexStr(seg) /\ ParseInt(seg) < Len(h[c.v].l)
         THEN h[c.v].l[ParseInt(seg) + 1]
    ELSE NoCell

RECURSIVE NodeAt(_, _, _)
NodeAt(h, c, segs) ==
    IF segs = <<>> \/ c = NoCell THEN c
    ELSE NodeAt(h, ChildAt(h, c, Head(segs)), Tail(segs))

\* the container holding the last segment of path p
ParentAt(h, c, p) == NodeAt(h, c, Front(SegsOf(p)))

ValueAt(h, c, p) == NodeAt(h, c, SegsOf(p))

\* every object but the one at address a is as it was before the last operation
OthersUnchanged(a) == \A b \in DOMAIN heap \ {a} : heap[b] = heapPre[b]

\* some segment before the last names a missing Object key or a Sequence
\* index >= length, all segments before it resolving
RECURSIVE MissingAlong(_, _, _)
MissingAlong(h, c, segs) ==
    /\ segs # <<>>
    /\ IF ChildAt(h, c, Head(segs)) # NoCell
       THEN MissingAlong(h, ChildAt(h, c, Head(segs)), Tail(segs))
       ELSE \/ IsDict(h, c)
            \/ IsList(h, c) /\ IsIndexStr(Head(segs))

IntermediateMissing(h, c, p) == WellFormed(p) /\ MissingAlong(h, c, Front(SegsOf(p)))

(***************************************************************************)
(* C2 (as claimed): when the k-th operation fails, the document is exactly *)
(* what the k-1 operations before it produced: the failing operation, of   *)
(* any kind, has changed nothing.                                          *)
(***************************************************************************)
C2_FailedOperationMutatesNothing ==
    Failed =>
        /\ heap = heapPre
        /\ DeepEq(heap, doc,
                  JsonPatch_apply(heapCall, doc, SubSeq(patch, 1, pc - 1)).heap, doc)

(***************************************************************************)
(* C3 (as claimed): apply changes neither the patch's operation list nor   *)
(* the values its operations hold, and a second apply of the same patch to *)
(* an equal document ends as the first did.                                *)
(***************************************************************************)
C3_PatchIsStateless ==
    /\ \A i \in 1..Len(patch) :
          DeepEq(heap, patch[i].value, heapNew, patch[i].value)
    /\ (run = 2 /\ Ended) =>
          /\ status = status1
          /\ DeepEq(heap, doc, heapEnd1, RefCell(Addr.root))

(***************************************************************************)
(* C4: the operations are applied in list order, each against the document *)
(* the earlier ones left.  With p the operations already applied and q the *)
(* rest, applying p ++ q to the document apply was called with ends as     *)
(* applying q to what p left; when p failed, p ++ q fails at the same      *)
(* operation with the same document.                                       *)
(***************************************************************************)
C4_ConcatenationIsSequence ==
    LET whole == JsonPatch_apply(heapCall, doc, patch)
        q == SubSeq(patch, pc, Len(patch))
        rest == JsonPatch_apply(heap, doc, q) IN
    /\ status = "running" =>
          /\ whole.err = rest.err
          /\ whole.heap = rest.heap
          /\ whole.at = rest.at + (pc - 1)
    /\ Failed => whole.err = status /\ whole.at = pc /\ whole.heap = heap
    /\ status = "returned" => whole.err = "ok" /\ whole.heap = heap

C4_Witness ==
    /\ status = "running"
    /\ pc = 2
    /\ Len(patch) >= 2
    /\ heap # heapCall
    /\ JsonPatch_apply(heap, doc, SubSeq(patch, pc, Len(patch))).heap # heap

(***************************************************************************)
(* C5: apply returns the very object it was given, and that object holds   *)
(* the patched content: a value the last operation added or put in place   *)
(* is found at its path through the caller's own reference.                *)
(***************************************************************************)
C5_ReturnsSameInstance ==
    status = "returned" =>
        /\ ret = doc
        /\ (Len(patch) >= 1 /\ LastOp.action \in {"add", "replace"}) =>
              ValueAt(heap, doc, LastOp.path) = LastOp.value

C5_Witness ==
    /\ status = "returned"
    /\ ret = doc
    /\ Len(patch) >= 1
    /\ LastOp.action = "add"
    /\ heap[doc.v] # heapCall[doc.v]

(***************************************************************************)
(* Move and the two-operation patch Remove{from}, Add{to, value}, value    *)
(* being what was at from before the Move.                                 *)
(***************************************************************************)
MovedValue ==
    LET loc == locate(heapPre, doc, LastOp.path, TRUE) IN
    IF loc.err = "ok" THEN GetItem(heapPre, loc.sub, loc.part) ELSE NoCell

RemoveThenAdd ==
    JsonPatch_apply(heapPre, doc,
        <<Op("remove", LastOp.path, NoCell, <<>>),
          Op("add", LastOp.to, MovedValue, <<>>)>>)

MoveSameOutcome ==
    /\ heap = RemoveThenAdd.heap
    /\ IF Failed THEN status = RemoveThenAdd.err ELSE RemoveThenAdd.err = "ok"

\* the destination names the very entry the source named
SameEntry ==
    LET from == locate(heapPre, doc, LastOp.path, TRUE)
        to == locate(heap, doc, LastOp.to, TRUE) IN
    from.sub = to.sub /\ from.part = to.part

(***************************************************************************)
(* C6 (as claimed): Move ends as Remove{from}, Add{to, value} does, and on *)
(* success the value is at the destination and no longer at the source.    *)
(***************************************************************************)
C6_MoveLeavesSource ==
    (Stepped /\ LastOp.action = "move") =>
        /\ MoveSameOutcome
        /\ ~Failed =>
              /\ ValueAt(heap, doc, LastOp.to) = MovedValue
              /\ ValueAt(heap, doc, LastOp.path) # MovedValue

(***************************************************************************)
(* C6 (amended): Move ends as Remove{from}, Add{to, value} does, the       *)
(* destination being resolved after the removal; on success the value is   *)
(* at the destination, and the source key of an Object is gone unless the  *)
(* destination names that same key of that same Object (as with to = from).*)
(***************************************************************************)
C6_MoveIsRemoveThenAdd ==
    (Stepped /\ LastOp.action = "move") =>
        /\ MoveSameOutcome
        /\ ~Failed =>
              /\ ValueAt(heap, doc, LastOp.to) = MovedValue
              /\ (IsDict(heapPre, ParentAt(heapPre, doc, LastOp.path)) /\ ~SameEntry) =>
                    ValueAt(heap, doc, LastOp.path) = NoCell

\* a Sequence element moved to a later index, past an element that shifted
C6_Witness ==
    /\ Stepped
    /\ LastOp.action = "move"
    /\ ~Failed
    /\ LastOp.path = Path(<<S0>>)
    /\ LastOp.to = Path(<<S1>>)
    /\ Len(heapPre[doc.v].l) = 2
    /\ heap[doc.v].l = <<heapPre[doc.v].l[2], heapPre[doc.v].l[1]>>

(***************************************************************************)
(* C7: Add with last segment k into a Sequence of length n.  0 <= k <= n:  *)
(* the Sequence then has n+1 elements, the value at k, the elements before *)
(* k as they were and each later element one place up.  k > n: Conflict,   *)
(* nothing changed.                                                        *)
(***************************************************************************)
C7_AddIntoSequence ==
    (Stepped /\ LastOp.action = "add" /\ WellFormed(LastOp.path)) =>
        LET par == ParentAt(heapPre, doc, LastOp.path)
            seg == LastSeg(LastOp.path) IN
        (IsList(heapPre, par) /\ IsIndexStr(seg)) =>
            LET k == ParseInt(seg)
                old == heapPre[par.v].l
                new == heap[par.v].l
                n == Len(old) IN
            IF k <= n
            THEN /\ ~Failed
                 /\ Len(new) = n + 1
                 /\ new[k + 1] = LastOp.value
                 /\ \A i \in 1..k : new[i] = old[i]
                 /\ \A i \in (k + 1)..n : new[i + 1] = old[i]
                 /\ OthersUnchanged(par.v)
            ELSE status = "JsonPatchConflict" /\ heap = heapPre

\* an insertion in front of an element, and not at the front
C7_Witness ==
    /\ Stepped
    /\ ~Failed
    /\ LastOp.action = "add"
    /\ LastOp.path = Path(<<S1>>)
    /\ IsList(heapPre, doc)
    /\ Len(heapPre[doc.v].l) = 2
    /\ Len(heap[doc.v].l) = 3

(***************************************************************************)
(* C8: Add never overwrites a key of an Object.  Key present: Conflict,    *)
(* nothing changed.  Key absent: the key holds the value, every other key  *)
(* of the Object and every other object is as it was.                      *)
(***************************************************************************)
C8_AddNeverOverwrites ==
    (Stepped /\ LastOp.action = "add" /\ WellFormed(LastOp.path)) =>
        LET par == ParentAt(heapPre, doc, LastOp.path)
            key == LastSeg(LastOp.path) IN
        IsDict(heapPre, par) =>
            LET old == heapPre[par.v].d
                new == heap[par.v].d IN
            IF key \in DOMAIN old
            THEN status = "JsonPatchConflict" /\ heap = heapPre
            ELSE /\ ~Failed
                 /\ DOMAIN new = DOMAIN old \cup {key}
                 /\ new[key] = LastOp.value
                 /\ \A j \in DOMAIN old : new[j] = old[j]
                 /\ OthersUnchanged(par.v)

\* an Add refused because the key holds something else already
C8_Witness ==
    /\ Failed
    /\ LastOp.action = "add"
    /\ LastOp.path = Path(<<SA>>)
    /\ IsDict(heapPre, doc)
    /\ SA \in DOMAIN heapPre[doc.v].d
    /\ heapPre[doc.v].d[SA] # LastOp.value
    /\ status = "JsonPatchConflict"

(***************************************************************************)
(* C9 (as claimed): an operation of any kind, one of whose paths has a     *)
(* segment before the last naming a missing Object key or a Sequence index *)
(* >= length, fails with Conflict and leaves the document unchanged.  The  *)
(* destination of a Move is read in the tree the Move resolves it in.      *)
(***************************************************************************)
C9_IntermediateMustExist ==
    (Stepped /\ get_operation(LastOp) # "invalid") =>
        /\ IntermediateMissing(heapPre, doc, LastOp.path) =>
              status = "JsonPatchConflict" /\ heap = heapPre
        /\ (/\ LastOp.action = "move"
            /\ RemoveOperation(heapPre, doc, LastOp).err = "ok"
            /\ IntermediateMissing(RemoveOperation(heapPre, doc, LastOp).heap,
                                   doc, LastOp.to)) =>
              status = "JsonPatchConflict" /\ heap = heapPre

(***************************************************************************)
(* C10 (as claimed): Remove with an integer last segment i on a Sequence   *)
(* removes element i, the later ones moving down, when 0 <= i < length;    *)
(* for any other integer, and for a missing Object key, it fails with      *)
(* Conflict and changes nothing.                                           *)
(***************************************************************************)
C10_RemoveOnlyInRange ==
    (Stepped /\ LastOp.action = "remove" /\ WellFormed(LastOp.path)) =>
        LET par == ParentAt(heapPre, doc, LastOp.path)
            seg == LastSeg(LastOp.path) IN
        /\ (IsList(heapPre, par) /\ IsIntLiteral(seg)) =>
              LET i == ParseInt(seg)
                  old == heapPre[par.v].l
                  new == heap[par.v].l IN
              IF 0 <= i /\ i < Len(old)
              THEN /\ ~Failed
                   /\ Len(new) = Len(old) - 1
                   /\ \A j \in 1..i : new[j] = old[j]
                   /\ \A j \in (i + 2)..Len(old) : new[j - 1] = old[j]
                   /\ OthersUnchanged(par.v)
              ELSE status = "JsonPatchConflict" /\ heap = heapPre
        /\ (IsDict(heapPre, par) /\ seg \notin DOMAIN heapPre[par.v].d) =>
              status = "JsonPatchConflict" /\ heap = heapPre

(***************************************************************************)
(* C1 (as claimed): for all src and dst, applying make_patch(src, dst) to  *)
(* a deep copy of src raises nothing and leaves the copy deeply equal to   *)
(* dst.                                                                    *)
(***************************************************************************)
C1_MakePatchRoundTrip ==
    Ended =>
        /\ status = "returned"
        /\ DeepEq(heap, doc, heap, RefCell(DiffAddr.dst))

(***************************************************************************)
(* C11 (as claimed): Replace succeeds only when the target exists (a       *)
(* Sequence index 0 <= key < length, a present Object key) and then        *)
(* overwrites exactly parent[key]; in every other case (an index at or     *)
(* beyond the length, a negative index, an absent key, a Scalar parent) it *)
(* fails with Conflict and the document is unchanged.                      *)
(***************************************************************************)
C11_ReplaceOnlyExisting ==
    (Stepped /\ LastOp.action = "replace" /\ WellFormed(LastOp.path)) =>
        LET par == ParentAt(heapPre, doc, LastOp.path)
            seg == LastSeg(LastOp.path) IN
        /\ (IsList(heapPre, par) /\ IsIntLiteral(seg)) =>
              LET i == ParseInt(seg)
                  old == heapPre[par.v].l
                  new == heap[par.v].l IN
              IF 0 <= i /\ i < Len(old)
              THEN /\ ~Failed
                   /\ Len(new) = Len(old)
                   /\ new[i + 1] = LastOp.value
                   /\ \A j \in 1..Len(old) : j # i + 1 => new[j] = old[j]
                   /\ OthersUnchanged(par.v)
              ELSE status = "JsonPatchConflict" /\ heap = heapPre
        /\ IsDict(heapPre, par) =>
              LET old == heapPre[par.v].d
                  new == heap[par.v].d IN
              IF seg \in DOMAIN old
              THEN /\ ~Failed
                   /\ DOMAIN new = DOMAIN old
                   /\ new[seg] = LastOp.value
                   /\ \A k \in DOMAIN old : k # seg => new[k] = old[k]
                   /\ OthersUnchanged(par.v)
              ELSE status = "JsonPatchConflict" /\ heap = heapPre
        /\ par.t = "int" => status = "JsonPatchConflict" /\ heap = heapPre

(***************************************************************************)
(* C12: Test never changes the document.  When the value at the path       *)
(* deep-equals the expected value the operation succeeds; when it does not *)
(* the operation raises AssertionError, which ends the apply: the loop is  *)
(* still at the Test and no step can follow.                               *)
(***************************************************************************)
C12_TestNeverMutates ==
    (Stepped /\ LastOp.action = "test") =>
        /\ heap = heapPre
        /\ (WellFormed(LastOp.path) /\ ValueAt(heapPre, doc, LastOp.path) # NoCell) =>
              IF DeepEq(heapPre, ValueAt(heapPre, doc, LastOp.path), heapPre, LastOp.value)
              THEN ~Failed
              ELSE /\ status = "AssertionError"
                   /\ patch[pc].action = "test"
                   /\ ~ENABLED Next

\* a Test that fails with an operation after it in the patch
C12_Witness ==
    /\ status = "AssertionError"
    /\ pc = 1
    /\ Len(patch) = 2
    /\ patch[2].action = "add"
    /\ heap = heapCall

\* the operation object has none of the five action keys
NoActionKey(operation) == operation.action \notin operations

HasNoActionKey(ops) == \E i \in 1..Len(ops) : NoActionKey(ops[i])

(***************************************************************************)
(* C13 (as claimed): a patch with an operation that has none of the five   *)
(* action keys, at any position, makes apply fail with JsonPatchException  *)
(* and the document is as it was when apply was called.                    *)
(***************************************************************************)
C13_InvalidAnywhereMutatesNothing ==
    (Ended /\ HasNoActionKey(patch)) =>
        status = "JsonPatchException" /\ heap = heapCall

(***************************************************************************)
(* C13 (amended): apply never returns from a patch with such an operation. *)
(* The operation is found at its own turn of the loop: when the operations *)
(* before it succeed it raises JsonPatchException and changes nothing      *)
(* itself, and the document is the result of the operations before it, the *)
(* original document when it is the first operation.                       *)
(***************************************************************************)
C13_InvalidFailsAtItsTurn ==
    /\ (Ended /\ HasNoActionKey(patch)) => Failed
    /\ (Failed /\ NoActionKey(patch[pc])) =>
          /\ status = "JsonPatchException"
          /\ heap = heapPre
          /\ LET before == JsonPatch_apply(heapCall, doc, SubSeq(patch, 1, pc - 1)) IN
             before.err = "ok" /\ heap = before.heap
          /\ pc = 1 => heap = heapCall

\* the operation without an action key fails after an Add has changed the document
C13_Witness ==
    /\ Failed
    /\ pc = 2
    /\ NoActionKey(patch[2])
    /\ patch[1].action = "add"
    /\ heap # heapCall

\* some segment is applied to a Scalar, or a segment that is not an integer
\* literal is applied to a Sequence, all segments before it resolving
RECURSIVE UnsteppableAlong(_, _, _)
UnsteppableAlong(h, c, segs) ==
    /\ segs # <<>>
    /\ \/ c.t = "int"
       \/ IsList(h, c) /\ ~IsIntLiteral(Head(segs))
       \/ /\ ChildAt(h, c, Head(segs)) # NoCell
          /\ UnsteppableAlong(h, ChildAt(h, c, Head(segs)), Tail(segs))

(***************************************************************************)
(* C14: an operation whose path steps into a Scalar as a container, or     *)
(* whose segment against a Sequence is not numeric, fails with             *)
(* JsonPatchConflict, the error kind of a missing key.                     *)
(***************************************************************************)
C14_ResolutionFailureIsConflict ==
    (/\ Stepped
     /\ ~NoActionKey(LastOp)
     /\ WellFormed(LastOp.path)
     /\ UnsteppableAlong(heapPre, doc, SegsOf(LastOp.path))) =>
        status = "JsonPatchConflict"

\* the patch is an Add followed by the Remove of the same path
IsAddThenRemove(ops) ==
    /\ Len(ops) = 2
    /\ ops[1].action = "add"
    /\ ops[2].action = "remove"
    /\ ops[2].path = ops[1].path

(***************************************************************************)
(* C15: when Add{path, value} succeeds, Remove{path} applied next succeeds *)
(* too and the document is deeply equal to the one before the Add; no      *)
(* object of the heap is left changed.                                     *)
(***************************************************************************)
C15_AddThenRemoveIsInverse ==
    (IsAddThenRemove(patch) /\ run = 1 /\ pc >= 2) =>
        /\ ~Failed
        /\ pc = 3 => DeepEq(heap, doc, heapCall, doc) /\ heap = heapCall

\* Add in the middle of a Sequence of two elements, then Remove: both done
C15_Witness ==
    /\ IsAddThenRemove(patch)
    /\ patch[1].path = Path(<<S1>>)
    /\ IsList(heapCall, doc)
    /\ Len(heapCall[doc.v].l) = 2
    /\ status = "returned"
    /\ heapPre # heap
    /\ heap = heapCall

(***************************************************************************)
(* C16: every Replace in the output of make_patch(src, dst) carries a      *)
(* value that is not deep-equal to the value src has at that path.         *)
(***************************************************************************)
C16_NoNoOpReplace ==
    status # "diffing" =>
        \A i \in 1..Len(patch) :
            patch[i].action = "replace" =>
                ~DeepEq(heapCall, ValueAt(heapCall, RefCell(DiffAddr.src), patch[i].path),
                        heapCall, patch[i].value)

\* the values src and dst of make_patch hold under key "a"
SrcA == ValueAt(heapCall, RefCell(DiffAddr.src), Path(<<SA>>))

DstA == ValueAt(heapCall, RefCell(DiffAddr.dst), Path(<<SA>>))

\* the operations of the patch below /a
BelowA == SelectSeq(patch, LAMBDA o : Len(SegsOf(o.path)) >= 2)

\* the comparisons of the elements at indices idx, idx - 1, ..., 0 of /a
RECURSIVE CommonOps(_, _)
CommonOps(ord, idx) ==
    IF idx < 0 THEN <<>>
    ELSE compare_values(heapCall, <<<<>>, SA, IntToStr(idx)>>,
                        heapCall[SrcA.v].l[idx + 1], heapCall[DstA.v].l[idx + 1], ord)
             \o CommonOps(ord, idx - 1)

(***************************************************************************)
(* C17: for two differing sequences at /a, the operations make_patch emits *)
(* below /a are, in this order: for each index from the greater length - 1 *)
(* down to the smaller length, one Remove of that index when src is longer *)
(* or one Add of dst's element at that index when dst is longer; then the  *)
(* comparisons of the elements at the common indices, from the smaller     *)
(* length - 1 down to 0.                                                   *)
(***************************************************************************)
C17_CompareListDescending ==
    (/\ status # "diffing"
     /\ IsList(heapCall, SrcA)
     /\ IsList(heapCall, DstA)
     /\ ~DeepEq(heapCall, SrcA, heapCall, DstA)) =>
        LET lsrc == Len(heapCall[SrcA.v].l)
            ldst == Len(heapCall[DstA.v].l)
            hi == Max(lsrc, ldst)
            lo == IF lsrc <= ldst THEN lsrc ELSE ldst
            n == hi - lo
        IN /\ Len(BelowA) >= n
           /\ \A k \in 1..n :
                 BelowA[k] =
                     IF lsrc > ldst
                     THEN Op("remove", Path(<<SA, IntToStr(hi - k)>>), NoCell, <<>>)
                     ELSE Op("add", Path(<<SA, IntToStr(hi - k)>>),
                             heapCall[DstA.v].l[hi - k + 1], <<>>)
           /\ \E ord \in KeyOrders :
                 SubSeq(BelowA, n + 1, Len(BelowA)) = CommonOps(ord, lo - 1)

\* src is longer by one and differs at the common index: a Remove, then a Replace
C17_Witness ==
    /\ status # "diffing"
    /\ IsList(heapCall, SrcA)
    /\ IsList(heapCall, DstA)
    /\ Len(heapCall[SrcA.v].l) = 2
    /\ Len(heapCall[DstA.v].l) = 1
    /\ BelowA = <<Op("remove", Path(<<SA, S1>>), NoCell, <<>>),
                  Op("replace", Path(<<SA, S0>>), IntCell(2), <<>>)>>

\* src and dst of make_patch are deeply equal
SameDocuments ==
    DeepEq(heapCall, RefCell(DiffAddr.src), heapCall, RefCell(DiffAddr.dst))

(***************************************************************************)
(* C18: make_patch(src, dst) of two deeply equal Objects is the empty      *)
(* patch, and when make_patch returns every object of the heap, those of   *)
(* src and dst among them, is as it was.                                   *)
(***************************************************************************)
C18_EqualDocumentsEmptyPatch ==
    /\ (status # "diffing" /\ SameDocuments) => patch = <<>>
    /\ (status = "running" /\ pc = 1) => heap = heapNew

\* equal documents holding a Sequence that holds a non-empty Sequence
C18_Witness ==
    /\ status # "diffing"
    /\ SameDocuments
    /\ IsList(heapCall, SrcA)
    /\ heapCall[SrcA.v].l # <<>>
    /\ IsList(heapCall, heapCall[SrcA.v].l[1])
    /\ heapCall[heapCall[SrcA.v].l[1].v].l # <<>>
    /\ SB \in DOMAIN heapCall[DiffAddr.src].d
    /\ patch = <<>>

(***************************************************************************)
(* C19: Move with the destination path equal to the source path, the path  *)
(* naming an existing Object key or Sequence element, succeeds and leaves   *)
(* the document deeply equal to the one before it: every object of the     *)
(* heap is as it was.                                                      *)
(***************************************************************************)
C19_MoveToItselfIsIdentity ==
    (/\ Stepped
     /\ LastOp.action = "move"
     /\ LastOp.to = LastOp.path
     /\ WellFormed(LastOp.path)
     /\ ValueAt(heapPre, doc, LastOp.path) # NoCell) =>
        /\ ~Failed
        /\ DeepEq(heap, doc, heapPre, doc)
        /\ heap = heapPre

\* the first of two elements of a Sequence moved to its own place
C19_Witness ==
    /\ Stepped
    /\ ~Failed
    /\ LastOp.action = "move"
    /\ LastOp.to = LastOp.path
    /\ LastOp.path = Path(<<S0>>)
    /\ IsList(heapPre, doc)
    /\ Len(heapPre[doc.v].l) = 2
    /\ heapPre[doc.v].l[1] # heapPre[doc.v].l[2]
    /\ heap = heapPre

====
